---- MODULE Spec2Model ----
(***************************************************************************)
(* rotor-test: the in-memory mock stream MemIo (src/src/stream.rs) and the *)
(* mock loop MockLoop with its capturing Handler (src/src/scope.rs).       *)
(*                                                                         *)
(* MemIo is Arc<Mutex<Bufs>>: `heap` holds the allocated Mutex<Bufs>       *)
(* cells, `handles` the MemIo values, each the index of the cell its Arc   *)
(* points to.  A Mutex cell is the record of Bufs' three fields plus the   *)
(* mutex's poison flag, which std sets when a thread panics while it holds *)
(* the guard.  Every call records what it returned in `ret`, with the cell *)
(* as it was before the call in ret.pre and as the call left it in         *)
(* ret.post.  `written` is the history of the bytes that write accepted.   *)
(*                                                                         *)
(* MockLoop owns the Handler (its log is `operations`, with `calls` the     *)
(* history of the facade calls made) and the `context`; `live` holds the   *)
(* tokens of the Scope views alive, `machine` the counter of the state     *)
(* machine M of scope.rs' self_test.                                       *)
(*                                                                         *)
(* MemIo and MockLoop share no state, so each has specifications of its    *)
(* own: Spec drives the stream, HistSpec drives it keeping the history of  *)
(* the bytes pushed and read, LoopSpec drives the Handler, ScopeSpec the   *)
(* MockLoop and its views, ConcSpec two threads that share one stream.     *)
(***************************************************************************)
EXTENDS Integers, Sequences, FiniteSets, TLC

VARIABLES heap, handles, ret, written, operations, calls,
          context, live, machine, pushed, delivered, pc, serial

\* History of the input bytes: all that push_bytes accepted, and all that
\* read returned.  Only HistSpec keeps it.
history == <<pushed, delivered>>

\* MemIo's side and MockLoop's side of the state, without `ret`.
streamSide == <<heap, handles, written, history>>
loopSide == <<operations, calls, context, live, machine>>

\* The threads driving the handles: where each one is in the call it makes,
\* and the cell as the whole calls returned so far leave it, applied one
\* after another.  Only ConcSpec moves them.
threadSide == <<pc, serial>>

vars == <<streamSide, ret, loopSide, threadSide>>

\* Longest input or output buffer the model lets grow.
MaxBuf == 2
\* Largest length of the slice handed to read.
MaxCap == 2
\* Most MemIo handles alive (the first one and its clones).
MaxHandles == 2
\* Most calls made on the Handler.
MaxLog == 3
\* Largest counter the state machine M is driven to.
MaxCount == 2
\* Most bytes pushed in all while the history is kept.
MaxPushed == 3

\* u8 values pushed as input: 'a' and 'b'.
InBytes == {97, 98}
\* u8 values written as output: 'a', and the two bytes of U+00E9 (0xC3 0xA9),
\* each of which is invalid UTF-8 when it stands alone.
OutBytes == {97, 195, 169}

Min(a, b) == IF a <= b THEN a ELSE b

SeqsUpTo(S, n) == UNION {[1..k -> S] : k \in 0..n}

PushVals == SeqsUpTo(InBytes, MaxBuf)

WriteVals == SeqsUpTo(OutBytes, MaxBuf)

Caps == 0..MaxCap

-----------------------------------------------------------------------------
(* stream.rs *)

\* MemIo::new: the Bufs inside a fresh, unpoisoned Mutex.
new == [input |-> <<>>, input_closed |-> FALSE, output |-> <<>>,
        poisoned |-> FALSE]

\* What a call gives back: the cell afterwards, and the caller's view.
\* outcome is "Ok", "WouldBlock" (Err(io::ErrorKind::WouldBlock)) or "Panic".
Result(m, outcome, n, data) ==
    [m |-> m, outcome |-> outcome, n |-> n, data |-> data]

\* bufs taking the guard out of a poisoned lock instead of panicking.
bufs_recover(m) == TRUE

\* MemIo::bufs: lock().expect(..) panics on a poisoned mutex (the panic is
\* raised before any guard exists, so the cell is left as it is).
bufs(m) == ~m.poisoned

\* A panic raised while the MutexGuard is alive: unwinding drops the guard,
\* which poisons the mutex.  Whatever was written to the Bufs before stays.
PanicHoldingLock(m) ==
    Result([m EXCEPT !.poisoned = TRUE], "Panic", 0, <<>>)

PanicNoLock(m) == Result(m, "Panic", 0, <<>>)

\* io::copy(&mut Cursor::new(&src), &mut Cursor::new(val)) with val.len() = cap:
\* the whole of src is read and handed to write_all on the slice cursor, which
\* writes what fits and then fails with WriteZero when bytes are left over.
copy(src, cap) ==
    IF Len(src) <= cap
    THEN [ok |-> TRUE, n |-> Len(src), dst |-> src]
    ELSE [ok |-> FALSE, n |-> cap, dst |-> SubSeq(src, 1, cap)]

\* Vec::drain(..bytes)
drain(s, bytes) == SubSeq(s, bytes + 1, Len(s))

\* push_bytes putting the new bytes in front of the unread ones.
push_bytes_front(m, val) ==
    IF ~bufs(m) THEN PanicNoLock(m)
    ELSE LET m1 == [m EXCEPT !.input = val \o @]
         IN  IF ~m1.input_closed
             THEN Result(m1, "Ok", 0, <<>>)
             ELSE PanicHoldingLock(m1)

push_bytes(m, val) ==
    IF ~bufs(m) THEN PanicNoLock(m)
    ELSE LET m1 == [m EXCEPT !.input = @ \o val]
         IN  IF ~m1.input_closed
             THEN Result(m1, "Ok", 0, <<>>)
             ELSE PanicHoldingLock(m1)

\* shutdown_input flipping the flag instead of setting it.
shutdown_input_toggle(m) ==
    IF ~bufs(m) THEN PanicNoLock(m)
    ELSE Result([m EXCEPT !.input_closed = ~@], "Ok", 0, <<>>)

\* shutdown_input throwing the unread input away.
shutdown_input_discard(m) ==
    IF ~bufs(m) THEN PanicNoLock(m)
    ELSE Result([m EXCEPT !.input_closed = TRUE, !.input = <<>>],
                "Ok", 0, <<>>)

shutdown_input(m) ==
    IF ~bufs(m) THEN PanicNoLock(m)
    ELSE Result([m EXCEPT !.input_closed = TRUE], "Ok", 0, <<>>)

\* String::from_utf8_lossy on the bytes of OutBytes' range: ASCII is kept, a
\* two-byte lead (0xC2..0xDF) followed by a continuation byte (0x80..0xBF)
\* is one scalar, every other byte becomes U+FFFD.
RECURSIVE from_utf8_lossy(_)
from_utf8_lossy(b) ==
    IF b = <<>> THEN <<>>
    ELSE IF b[1] < 128 THEN <<b[1]>> \o from_utf8_lossy(Tail(b))
    ELSE IF /\ b[1] >= 194 /\ b[1] <= 223 /\ Len(b) >= 2
            /\ b[2] >= 128 /\ b[2] <= 191
         THEN <<(b[1] - 192) * 64 + (b[2] - 128)>>
                  \o from_utf8_lossy(Tail(Tail(b)))
    ELSE <<65533>> \o from_utf8_lossy(Tail(b))

output_str(m) ==
    IF ~bufs(m) THEN PanicNoLock(m)
    ELSE Result(m, "Ok", 0, from_utf8_lossy(m.output))

\* output_bytes taking the buffer (mem::replace) instead of cloning it.
output_bytes_take(m) ==
    IF ~bufs(m) THEN PanicNoLock(m)
    ELSE Result([m EXCEPT !.output = <<>>], "Ok", 0, m.output)

output_bytes(m) ==
    IF ~bufs(m) THEN PanicNoLock(m)
    ELSE Result(m, "Ok", 0, m.output)

\* read reporting end-of-stream on any empty buffer, closed or not.
read_empty_is_eof(m, cap) ==
    IF ~bufs(m) THEN PanicNoLock(m)
    ELSE LET bytes == Min(cap, Len(m.input))
         IN  IF bytes > 0
             THEN LET c == copy(m.input, cap)
                  IN  IF c.ok /\ c.n = bytes
                      THEN Result([m EXCEPT !.input = drain(@, bytes)],
                                  "Ok", bytes, SubSeq(c.dst, 1, bytes))
                      ELSE PanicHoldingLock(m)
             ELSE Result(m, "Ok", 0, <<>>)

\* read delivering end-of-stream once and then reopening the input.
read_eof_once(m, cap) ==
    IF ~bufs(m) THEN PanicNoLock(m)
    ELSE LET bytes == Min(cap, Len(m.input))
         IN  IF bytes > 0
             THEN LET c == copy(m.input, cap)
                  IN  IF c.ok /\ c.n = bytes
                      THEN Result([m EXCEPT !.input = drain(@, bytes)],
                                  "Ok", bytes, SubSeq(c.dst, 1, bytes))
                      ELSE PanicHoldingLock(m)
             ELSE IF m.input_closed
                  THEN Result([m EXCEPT !.input_closed = FALSE], "Ok", 0, <<>>)
                  ELSE Result(m, "WouldBlock", 0, <<>>)

read(m, cap) ==
    IF ~bufs(m) THEN PanicNoLock(m)
    ELSE LET bytes == Min(cap, Len(m.input))
         IN  IF bytes > 0
             THEN LET c == copy(m.input, cap)
                  IN  IF c.ok /\ c.n = bytes
                      THEN Result([m EXCEPT !.input = drain(@, bytes)],
                                  "Ok", bytes, SubSeq(c.dst, 1, bytes))
                      ELSE PanicHoldingLock(m)
             ELSE IF m.input_closed
                  THEN Result(m, "Ok", 0, <<>>)
                  ELSE Result(m, "WouldBlock", 0, <<>>)

\* write replacing the output buffer instead of appending to it.
write_overwrite(m, val) ==
    IF ~bufs(m) THEN PanicNoLock(m)
    ELSE Result([m EXCEPT !.output = val], "Ok", Len(val), <<>>)

\* write feeding its bytes to the input buffer as well, as a pipe would.
write_pipe(m, val) ==
    IF ~bufs(m) THEN PanicNoLock(m)
    ELSE Result([m EXCEPT !.output = @ \o val, !.input = @ \o val],
                "Ok", Len(val), <<>>)

\* io::copy into a Vec<u8> appends everything.
write(m, val) ==
    IF ~bufs(m) THEN PanicNoLock(m)
    ELSE Result([m EXCEPT !.output = @ \o val], "Ok", Len(val), <<>>)

\* flush takes no lock.
flush(m) == Result(m, "Ok", 0, <<>>)

\* clone copying the Bufs into a cell of its own.
clone_copy(hp, hs, h) == <<Append(hp, hp[hs[h]]), Append(hs, Len(hp) + 1)>>

\* #[derive(Clone)] on MemIo(Arc<..>): Arc::clone, a second pointer to the
\* same cell.  Gives the new <<heap, handles>>.
clone(hp, hs, h) == <<hp, Append(hs, hs[h])>>

\* The calls that take the lock.
LockingOps ==
    {"push_bytes", "shutdown_input", "read", "write", "output_str",
     "output_bytes"}

\* A locking call made whole, on the cell m.
Apply(op, m, cap, val) ==
    CASE op = "push_bytes" -> push_bytes(m, val)
      [] op = "shutdown_input" -> shutdown_input(m)
      [] op = "read" -> read(m, cap)
      [] op = "write" -> write(m, val)
      [] op = "output_str" -> output_str(m)
      [] op = "output_bytes" -> output_bytes(m)

\* The same calls as the threads of a program run them, a step at a time.
\* Two threads, one for each of two handles.
Threads == {1, 2}

\* What a thread pushes: b"a", b"ab", .. so that a part of a push is told
\* from a whole one.
ThreadPushVals == {v \in PushVals \ {<<>>} : \A k \in 1..Len(v) : v[k] = 96 + k}

\* What a thread writes: the two bytes of U+00E9 and their prefix, which
\* output_str shows as U+FFFD.
ThreadWriteVals == {v \in WriteVals \ {<<>>} : \A k \in 1..Len(v) :
                       v[k] = IF k % 2 = 1 THEN 195 ELSE 169}

\* A thread's place: `at` is "idle" outside a call, "lock" inside
\* Mutex::lock, "body" with the MutexGuard in hand; i counts the steps of
\* the body done, n, ok and data are read's and the snapshots' locals.
Idle == [at |-> "idle", op |-> "new", cap |-> 0, val |-> <<>>,
         i |-> 0, n |-> 0, ok |-> TRUE, data |-> <<>>]

\* Mutex::lock letting a thread in while another thread's guard is alive.
lock_shared(held, t) == TRUE

\* Mutex::lock returns once no other guard is alive.
lock(held, t) == held = {}

\* Whether the body of the call p has a step left before its guard drops.
\* read stops after the copy when the copy failed.
more(p) ==
    CASE p.op \in {"push_bytes", "write"} -> p.i < Len(p.val)
      [] p.op = "read" -> p.i = 0 \/ (p.i = 1 /\ p.ok)
      [] OTHER -> p.i = 0

\* One step of the body of the call p on the Bufs m: extend and io::copy
\* into a Vec append byte after byte; read computes `bytes` and copies,
\* then drains; a snapshot clones the output buffer.
body(m, p) ==
    CASE p.op = "push_bytes" ->
            [m |-> [m EXCEPT !.input = Append(@, p.val[p.i + 1])],
             p |-> [p EXCEPT !.i = @ + 1]]
      [] p.op = "write" ->
            [m |-> [m EXCEPT !.output = Append(@, p.val[p.i + 1])],
             p |-> [p EXCEPT !.i = @ + 1]]
      [] p.op = "shutdown_input" ->
            [m |-> [m EXCEPT !.input_closed = TRUE],
             p |-> [p EXCEPT !.i = 1]]
      [] p.op = "read" /\ p.i = 0 ->
            LET bytes == Min(p.cap, Len(m.input))
                c == copy(m.input, p.cap)
            IN  IF bytes > 0
                THEN [m |-> m,
                      p |-> [p EXCEPT !.i = 1, !.n = bytes,
                                      !.ok = c.ok /\ c.n = bytes,
                                      !.data = c.dst]]
                ELSE [m |-> m, p |-> [p EXCEPT !.i = 2]]
      [] p.op = "read" /\ p.i = 1 ->
            [m |-> [m EXCEPT !.input = drain(@, p.n)],
             p |-> [p EXCEPT !.i = 2]]
      [] p.op = "output_bytes" ->
            [m |-> m, p |-> [p EXCEPT !.i = 1, !.data = m.output]]
      [] p.op = "output_str" ->
            [m |-> m,
             p |-> [p EXCEPT !.i = 1, !.data = from_utf8_lossy(m.output)]]

\* The end of the body of the call p: what it returns (or its panic, the
\* guard still alive) when no step is left.
finish(m, p) ==
    CASE p.op = "push_bytes" ->
            IF ~m.input_closed THEN Result(m, "Ok", 0, <<>>)
            ELSE PanicHoldingLock(m)
      [] p.op = "read" ->
            IF p.i = 1 THEN PanicHoldingLock(m)
            ELSE IF p.n > 0
                 THEN Result(m, "Ok", p.n, SubSeq(p.data, 1, p.n))
            ELSE IF m.input_closed THEN Result(m, "Ok", 0, <<>>)
            ELSE Result(m, "WouldBlock", 0, <<>>)
      [] p.op = "write" -> Result(m, "Ok", Len(p.val), <<>>)
      [] p.op = "shutdown_input" -> Result(m, "Ok", 0, <<>>)
      [] OTHER -> Result(m, "Ok", 0, p.data)

-----------------------------------------------------------------------------
(* scope.rs *)

\* mio::EventSet and mio::PollOpt values a transition may pass.
EventSets == {"readable", "writable"}
PollOpts == {"edge", "level"}

Register(interest, opt) == [kind |-> "Register", interest |-> interest, opt |-> opt]
Reregister(interest, opt) == [kind |-> "Reregister", interest |-> interest, opt |-> opt]
Deregister == [kind |-> "Deregister", interest |-> "", opt |-> ""]
Shutdown == [kind |-> "Shutdown", interest |-> "", opt |-> ""]

Operation ==
    {Register(i, o) : i \in EventSets, o \in PollOpts}
        \cup {Reregister(i, o) : i \in EventSets, o \in PollOpts}
        \cup {Deregister, Shutdown}

\* register skipping an entry equal to the last one logged.
register_dedup(ops, interest, opt) ==
    IF ops # <<>> /\ ops[Len(ops)] = Register(interest, opt)
    THEN ops ELSE Append(ops, Register(interest, opt))

\* Vec::push on Handler.operations
register(ops, interest, opt) == Append(ops, Register(interest, opt))
reregister(ops, interest, opt) == Append(ops, Reregister(interest, opt))
deregister(ops) == Append(ops, Deregister)
shutdown(ops) == Append(ops, Shutdown)

\* mio::Token values and timer delays a caller may pass, and the values of
\* the user's context type C.
Tokens == {1, 2}
Delays == {0, 100}
Contexts == {"c0", "c1"}

\* What a Handler timer method gives back: the log afterwards and "Ok" or
\* "Panic".
TimerResult(ops, outcome) == [ops |-> ops, outcome |-> outcome]

\* timeout_ms accepting the timer silently, as a no-op.
timeout_ms_noop(ops, token, delay) == TimerResult(ops, "Ok")

\* panic!("Deprecated API"), whatever the arguments.
timeout_ms(ops, token, delay) == TimerResult(ops, "Panic")

clear_timeout(ops) == TimerResult(ops, "Panic")

\* The MockLoop as its methods see it: the Handler's log, the context and
\* the views that borrow them.
MockLoop(ops, c, views) == [operations |-> ops, context |-> c, live |-> views]

\* What a MockLoop method gives back: the loop afterwards and "Ok", or
\* "Rejected" for a call the borrow checker refuses (the loop is still
\* mutably borrowed by a live Scope), which therefore never runs.
LoopResult(lp, outcome) == [lp |-> lp, outcome |-> outcome]

\* scope building each view over a new, empty Handler.
scope_fresh_handler(lp, x) ==
    IF lp.live = <<>>
    THEN LoopResult([lp EXCEPT !.live = <<x>>, !.operations = <<>>], "Ok")
    ELSE LoopResult(lp, "Rejected")

\* scope handing out views with nothing that keeps them exclusive.
scope_shared(lp, x) ==
    LoopResult([lp EXCEPT !.live = Append(@, x)], "Ok")

\* MockLoop::scope(&mut self, x) -> Scope<C>: the view borrows context,
\* channel and handler mutably for as long as it lives.
scope(lp, x) ==
    IF lp.live = <<>>
    THEN LoopResult([lp EXCEPT !.live = <<x>>], "Ok")
    ELSE LoopResult(lp, "Rejected")

\* MockLoop::ctx(&mut self) -> &mut C, through which the caller stores c.
ctx(lp, c) ==
    IF lp.live = <<>>
    THEN LoopResult([lp EXCEPT !.context = c], "Ok")
    ELSE LoopResult(lp, "Rejected")

\* The Scope going out of scope ends its borrows.
drop(lp) == LoopResult([lp EXCEPT !.live = SubSeq(@, 1, Len(@) - 1)], "Ok")

\* self_test's M::wakeup: Response::ok(M(self.0 + 1)), no scheduling call.
wakeup(counter) == counter + 1

-----------------------------------------------------------------------------
(* state machine *)

Handles == 1..Len(handles)

NoCall == [op |-> "new", cap |-> 0, val |-> <<>>,
           outcome |-> "Ok", n |-> 0, data |-> <<>>,
           pre |-> new, post |-> new]

Init ==
    /\ heap = <<new>>
    /\ handles = <<1>>
    /\ ret = NoCall
    /\ written = <<>>
    /\ operations = <<>>
    /\ calls = <<>>
    /\ context = "c0"
    /\ live = <<>>
    /\ machine = 0
    /\ pushed = <<>>
    /\ delivered = <<>>
    /\ pc = [t \in Threads |-> Idle]
    /\ serial = new

\* A MemIo method called through handle h, r being what it computed from the
\* cell the handle points to.
CallCore(op, h, cap, val, r) ==
    /\ heap' = [heap EXCEPT ![handles[h]] = r.m]
    /\ ret' = [op |-> op, cap |-> cap, val |-> val,
               outcome |-> r.outcome, n |-> r.n, data |-> r.data,
               pre |-> heap[handles[h]], post |-> r.m]
    /\ written' = IF op = "write" /\ r.outcome = "Ok"
                  THEN written \o val ELSE written
    /\ UNCHANGED <<handles, loopSide, threadSide>>

Call(op, h, cap, val, r) ==
    /\ CallCore(op, h, cap, val, r)
    /\ UNCHANGED history

PushBytes(h, val) ==
    /\ Len(heap[handles[h]].input) + Len(val) <= MaxBuf
    /\ Call("push_bytes", h, 0, val, push_bytes(heap[handles[h]], val))

ShutdownInput(h) ==
    Call("shutdown_input", h, 0, <<>>, shutdown_input(heap[handles[h]]))

OutputStr(h) ==
    Call("output_str", h, 0, <<>>, output_str(heap[handles[h]]))

OutputBytes(h) ==
    Call("output_bytes", h, 0, <<>>, output_bytes(heap[handles[h]]))

Read(h, cap) ==
    Call("read", h, cap, <<>>, read(heap[handles[h]], cap))

Write(h, val) ==
    /\ Len(heap[handles[h]].output) + Len(val) <= MaxBuf
    /\ Call("write", h, 0, val, write(heap[handles[h]], val))

Flush(h) ==
    Call("flush", h, 0, <<>>, flush(heap[handles[h]]))

Clone(h) ==
    /\ Len(handles) < MaxHandles
    /\ heap' = clone(heap, handles, h)[1]
    /\ handles' = clone(heap, handles, h)[2]
    /\ ret' = [NoCall EXCEPT !.op = "clone", !.pre = heap[handles[h]],
                             !.post = heap[handles[h]]]
    /\ UNCHANGED <<written, history, loopSide, threadSide>>

Next ==
    \/ \E h \in Handles, val \in PushVals : PushBytes(h, val)
    \/ \E h \in Handles : ShutdownInput(h)
    \/ \E h \in Handles : OutputStr(h)
    \/ \E h \in Handles : OutputBytes(h)
    \/ \E h \in Handles, cap \in Caps : Read(h, cap)
    \/ \E h \in Handles, val \in WriteVals : Write(h, val)
    \/ \E h \in Handles : Flush(h)
    \/ \E h \in Handles : Clone(h)

Spec == Init /\ [][Next]_vars

\* The same calls with the history kept: an accepted push_bytes adds its
\* argument to `pushed`, a read that returns bytes adds them to `delivered`.
HistCall(op, h, cap, val, r) ==
    /\ CallCore(op, h, cap, val, r)
    /\ pushed' = IF op = "push_bytes" /\ r.outcome = "Ok"
                 THEN pushed \o val ELSE pushed
    /\ delivered' = IF op = "read" /\ r.outcome = "Ok"
                    THEN delivered \o r.data ELSE delivered

HistPushBytes(h, val) ==
    /\ Len(heap[handles[h]].input) + Len(val) <= MaxBuf
    /\ Len(pushed) + Len(val) <= MaxPushed
    /\ HistCall("push_bytes", h, 0, val, push_bytes(heap[handles[h]], val))

HistShutdownInput(h) ==
    HistCall("shutdown_input", h, 0, <<>>, shutdown_input(heap[handles[h]]))

HistRead(h, cap) ==
    HistCall("read", h, cap, <<>>, read(heap[handles[h]], cap))

HistWrite(h, val) ==
    /\ Len(heap[handles[h]].output) + Len(val) <= MaxBuf
    /\ HistCall("write", h, 0, val, write(heap[handles[h]], val))

HistNext ==
    \/ \E h \in Handles, val \in PushVals : HistPushBytes(h, val)
    \/ \E h \in Handles : HistShutdownInput(h)
    \/ \E h \in Handles, cap \in Caps : HistRead(h, cap)
    \/ \E h \in Handles, val \in WriteVals : HistWrite(h, val)

HistSpec == Init /\ [][HistNext]_vars

\* A Handler method called through the _LoopApi facade: `calls` keeps the
\* history of the calls made, `ret` what the last one reported.
Facade(op, ops) ==
    /\ Len(calls) < MaxLog
    /\ operations' = ops
    /\ calls' = Append(calls, op)
    /\ ret' = [NoCall EXCEPT !.op = op.kind]
    /\ UNCHANGED <<streamSide, context, live, machine, threadSide>>

DoRegister(interest, opt) ==
    Facade(Register(interest, opt), register(operations, interest, opt))

DoReregister(interest, opt) ==
    Facade(Reregister(interest, opt), reregister(operations, interest, opt))

DoDeregister == Facade(Deregister, deregister(operations))

DoShutdown == Facade(Shutdown, shutdown(operations))

\* A legacy timer method called on the Handler.
Timer(op, delay, r) ==
    /\ operations' = r.ops
    /\ ret' = [NoCall EXCEPT !.op = op, !.cap = delay, !.outcome = r.outcome]
    /\ UNCHANGED <<streamSide, calls, context, live, machine, threadSide>>

DoTimeoutMs(token, delay) ==
    Timer("timeout_ms", delay, timeout_ms(operations, token, delay))

DoClearTimeout == Timer("clear_timeout", 0, clear_timeout(operations))

LoopNext ==
    \/ \E i \in EventSets, o \in PollOpts : DoRegister(i, o)
    \/ \E i \in EventSets, o \in PollOpts : DoReregister(i, o)
    \/ DoDeregister
    \/ DoShutdown
    \/ \E t \in Tokens, d \in Delays : DoTimeoutMs(t, d)
    \/ DoClearTimeout

LoopSpec == Init /\ [][LoopNext]_vars

\* A MockLoop method, r being what it computed from the loop.
LoopCall(op, x, c, r) ==
    /\ operations' = r.lp.operations
    /\ context' = r.lp.context
    /\ live' = r.lp.live
    /\ ret' = [NoCall EXCEPT !.op = op, !.cap = x, !.data = c,
                             !.outcome = r.outcome]
    /\ UNCHANGED <<streamSide, calls, machine, threadSide>>

Scope(x) ==
    LoopCall("scope", x, <<>>, scope(MockLoop(operations, context, live), x))

Ctx(c) ==
    LoopCall("ctx", 0, <<c>>, ctx(MockLoop(operations, context, live), c))

DropScope ==
    /\ live # <<>>
    /\ LoopCall("drop", 0, <<>>, drop(MockLoop(operations, context, live)))

\* Machine::wakeup(m, &mut scope) with the view alive.
Wakeup ==
    /\ live # <<>>
    /\ machine < MaxCount
    /\ machine' = wakeup(machine)
    /\ ret' = [NoCall EXCEPT !.op = "wakeup", !.n = wakeup(machine)]
    /\ UNCHANGED <<streamSide, operations, calls, context, live, threadSide>>

\* Scheduling calls a transition makes through the view it was given.
ScopeNext ==
    \/ \E x \in Tokens : Scope(x)
    \/ \E c \in Contexts : Ctx(c)
    \/ DropScope
    \/ Wakeup
    \/ live # <<>> /\ \E i \in EventSets, o \in PollOpts : DoRegister(i, o)
    \/ live # <<>> /\ DoDeregister

ScopeSpec == Init /\ [][ScopeNext]_vars

\* The threads whose MutexGuard is alive.
guards == {t \in Threads : pc[t].at = "body"}

\* Bytes that the calls under way have still to append to the input and to
\* the output buffer.
Pending(op) ==
    LET left(t) == IF pc[t].at # "idle" /\ pc[t].op = op
                   THEN Len(pc[t].val) - pc[t].i ELSE 0
    IN  left(1) + left(2)

\* Thread t, which drives handle t, makes a call and comes to self.bufs().
Enter(t, op, cap, val) ==
    /\ t \in Handles
    /\ pc[t].at = "idle"
    /\ op = "push_bytes"
         => Len(heap[handles[t]].input) + Pending(op) + Len(val) <= MaxBuf
    /\ op = "write"
         => Len(heap[handles[t]].output) + Pending(op) + Len(val) <= MaxBuf
    /\ pc' = [pc EXCEPT ![t] = [Idle EXCEPT !.at = "lock", !.op = op,
                                            !.cap = cap, !.val = val]]
    /\ UNCHANGED <<streamSide, ret, loopSide, serial>>

\* Thread t's call returns r (or unwinds): the whole call is applied to
\* `serial`, which the caller's `ret` keeps as it was before.
Return(t, r) ==
    /\ ret' = [op |-> pc[t].op, cap |-> pc[t].cap, val |-> pc[t].val,
               outcome |-> r.outcome, n |-> r.n, data |-> r.data,
               pre |-> serial, post |-> r.m]
    /\ serial' = Apply(pc[t].op, serial, pc[t].cap, pc[t].val).m
    /\ pc' = [pc EXCEPT ![t] = Idle]

\* Mutex::lock lets thread t in; on a poisoned mutex .expect(..) panics.
Lock(t) ==
    /\ pc[t].at = "lock"
    /\ lock(guards, t)
    /\ IF bufs(heap[handles[t]])
       THEN /\ pc' = [pc EXCEPT ![t].at = "body"]
            /\ UNCHANGED <<ret, serial>>
       ELSE Return(t, PanicNoLock(heap[handles[t]]))
    /\ UNCHANGED <<streamSide, loopSide>>

\* Thread t, the guard in hand, takes a step of the body of its call.
Step(t) ==
    /\ pc[t].at = "body"
    /\ more(pc[t])
    /\ heap' = [heap EXCEPT ![handles[t]] = body(@, pc[t]).m]
    /\ pc' = [pc EXCEPT ![t] = body(heap[handles[t]], pc[t]).p]
    /\ UNCHANGED <<handles, written, history, ret, loopSide, serial>>

\* Thread t's call ends and its guard drops.
Unlock(t) ==
    /\ pc[t].at = "body"
    /\ ~more(pc[t])
    /\ heap' = [heap EXCEPT ![handles[t]] = finish(@, pc[t]).m]
    /\ Return(t, finish(heap[handles[t]], pc[t]))
    /\ UNCHANGED <<handles, written, history, loopSide>>

ConcNext ==
    \/ \E h \in Handles : Clone(h)
    \/ \E t \in Threads, val \in ThreadPushVals :
          Enter(t, "push_bytes", 0, val)
    \/ \E t \in Threads, val \in ThreadWriteVals : Enter(t, "write", 0, val)
    \/ \E t \in Threads, cap \in Caps : Enter(t, "read", cap, <<>>)
    \/ \E t \in Threads, op \in {"shutdown_input", "output_str",
                                  "output_bytes"} : Enter(t, op, 0, <<>>)
    \/ \E t \in Threads : Lock(t)
    \/ \E t \in Threads : Step(t)
    \/ \E t \in Threads : Unlock(t)

ConcSpec == Init /\ [][ConcNext]_vars

-----------------------------------------------------------------------------
(* claims *)

\* The three fields of Bufs agree in two cells.
SameBufs(a, b) ==
    /\ a.input = b.input
    /\ a.input_closed = b.input_closed
    /\ a.output = b.output

\* C1: a read with capacity C > 0 on a stream that holds pushed input returns
\* exactly min(C, remaining) bytes, the front of the input buffer in FIFO
\* order, and removes them from the buffer.
C1_ReadReturnsFront ==
    (ret.op = "read" /\ ret.cap > 0 /\ ret.pre.input # <<>> /\ ~ret.pre.poisoned)
        => /\ ret.outcome = "Ok"
           /\ ret.n = Min(ret.cap, Len(ret.pre.input))
           /\ ret.data = SubSeq(ret.pre.input, 1, ret.n)
           /\ ret.post.input = SubSeq(ret.pre.input, ret.n + 1, Len(ret.pre.input))

\* C2: every read on a stream whose lock is not poisoned ends as bytes-read
\* (Ok, n > 0), end-of-stream (Ok, n = 0) or would-block; it never aborts.
C2_ReadNeverAborts ==
    (ret.op = "read" /\ ~ret.pre.poisoned)
        => ret.outcome \in {"Ok", "WouldBlock"}

\* C3: a read against an empty input buffer whose input_closed is false
\* returns would-block and leaves input, input_closed and output unchanged.
C3_EmptyOpenWouldBlock ==
    (ret.op = "read" /\ ret.pre.input = <<>> /\ ~ret.pre.input_closed)
        => /\ ret.outcome = "WouldBlock"
           /\ SameBufs(ret.post, ret.pre)

\* C3's case: a read with room for bytes found the input empty and open.
C3_Witness ==
    /\ ret.op = "read" /\ ret.cap > 0
    /\ ret.pre.input = <<>> /\ ~ret.pre.input_closed
    /\ ret.outcome = "WouldBlock"

\* A stream that has reached end-of-stream: the input is closed and either
\* drained, or the lock was poisoned so that no buffer can be read any more.
AtEof(m) == m.input_closed /\ (m.input = <<>> \/ m.poisoned)

\* C4 as claimed: once shutdown_input has been called and the input buffer is
\* empty, every read returns end-of-stream, Ok with zero bytes.
C4_EofAfterShutdownEmpty ==
    (ret.op = "read" /\ ret.pre.input_closed /\ ret.pre.input = <<>>)
        => (ret.outcome = "Ok" /\ ret.n = 0)

\* C4 amended: once shutdown_input has been called and the input buffer is
\* empty, every later read returns end-of-stream for as long as the lock is
\* not poisoned, and aborts once it is (a push_bytes attempted after the
\* shutdown poisons it); no call brings the stream back to would-block or to
\* returning data.
C4_EofIsFinal ==
    /\ [](ret.op = "read" /\ AtEof(ret.pre)
            => /\ ret.outcome = (IF ret.pre.poisoned THEN "Panic" ELSE "Ok")
               /\ ret.n = 0 /\ ret.data = <<>>)
    /\ [][AtEof(ret.post) => AtEof(ret'.pre) /\ AtEof(ret'.post)]_vars

\* C4's case: a read with room for bytes on a closed, drained stream that
\* is not poisoned.
C4_Witness ==
    /\ ret.op = "read" /\ ret.cap > 0
    /\ ret.pre.input_closed /\ ret.pre.input = <<>> /\ ~ret.pre.poisoned
    /\ ret.outcome = "Ok" /\ ret.n = 0

\* C5: push_bytes aborts exactly when shutdown_input has been called before
\* it, whatever its argument: always after, never before.
C5_PushAbortsIffClosed ==
    ret.op = "push_bytes"
        => (ret.outcome = "Panic" <=> ret.pre.input_closed)

\* C6: input_closed is false on creation and, once true, stays true through
\* every later call.
C6_InputClosedMonotonic ==
    /\ \A p \in 1..Len(heap) : ~heap[p].input_closed
    /\ [][\A p \in 1..Len(heap) :
            heap[p].input_closed => heap'[p].input_closed]_vars

\* C6's case: a call other than shutdown_input was made on a closed stream.
C6_Witness ==
    /\ ret.op \in {"read", "write", "flush", "output_str", "output_bytes",
                   "push_bytes"}
    /\ ret.pre.input_closed
    /\ ret.post.input_closed

\* C7 as claimed, on a stream whose input buffer is empty (where no read can
\* have aborted): write always succeeds, reports the full length of its
\* argument and appends its bytes to the tail of the output buffer.
C7_WriteAlwaysSucceeds ==
    (ret.op = "write" /\ ret.pre.input = <<>>)
        => /\ ret.outcome = "Ok"
           /\ ret.n = Len(ret.val)
           /\ ret.post.output = ret.pre.output \o ret.val

\* C7 amended: on a stream whose lock is not poisoned, write succeeds, reports
\* the full length of its argument and appends its bytes to the tail of the
\* output buffer, whatever the input side holds; a write on a poisoned lock
\* aborts and appends nothing; so the output buffer seen through every handle
\* is the concatenation of all accepted writes in call order.
C7_WriteAppends ==
    /\ ret.op = "write"
        => IF ret.pre.poisoned
           THEN ret.outcome = "Panic" /\ ret.post = ret.pre
           ELSE /\ ret.outcome = "Ok"
                /\ ret.n = Len(ret.val)
                /\ ret.post.output = ret.pre.output \o ret.val
    /\ \A h \in Handles : heap[handles[h]].output = written

\* C7's case: a second non-empty write landed behind the bytes of a first.
C7_Witness ==
    /\ ret.op = "write" /\ ret.outcome = "Ok"
    /\ ret.pre.output # <<>> /\ ret.val # <<>>
    /\ written = ret.pre.output \o ret.val

\* C8: output_str and output_bytes leave input, input_closed and output as
\* they were and return the output buffer as it still stands afterwards
\* (output_str its lossy decoding), so a second snapshot with no write in
\* between returns the same data.
C8_SnapshotsArePure ==
    ret.op \in {"output_str", "output_bytes"}
        => /\ ret.post = ret.pre
           /\ \A h \in Handles : heap[handles[h]] = ret.pre
           /\ (ret.outcome = "Ok" /\ ret.op = "output_bytes")
                => ret.data = written
           /\ (ret.outcome = "Ok" /\ ret.op = "output_str")
                => /\ Len(ret.data) <= Len(written)
                   /\ \A i \in 1..Len(ret.data) :
                        ret.data[i] \in {97, 233, 65533}
                   /\ (\A i \in 1..Len(written) : written[i] < 128)
                        => ret.data = written

\* C8's case: a byte snapshot of a non-empty output buffer.
C8_Witness ==
    /\ ret.op = "output_bytes" /\ ret.outcome = "Ok"
    /\ ret.data # <<>>
    /\ heap[1].output = ret.data

\* C9: all clones act on one buffer pair: whatever handle the last call went
\* through, every handle sees the cell as that call left it, bytes pushed or
\* written and a shutdown included, and cloning allocates no second cell.
C9_ClonesShareBufs ==
    /\ Len(heap) = 1
    /\ \A h \in Handles : heap[handles[h]] = ret.post
    /\ (ret.op = "push_bytes" /\ ret.outcome = "Ok")
        => \A h \in Handles :
              heap[handles[h]].input = ret.pre.input \o ret.val
    /\ (ret.op = "shutdown_input" /\ ret.outcome = "Ok")
        => \A h \in Handles : heap[handles[h]].input_closed
    /\ (ret.op = "write" /\ ret.outcome = "Ok")
        => \A h \in Handles :
              heap[handles[h]].output = ret.pre.output \o ret.val

\* C9's case: with a clone alive, a read returned bytes that a push had
\* appended.
C9_Witness ==
    /\ Len(handles) >= 2
    /\ ret.op = "read" /\ ret.outcome = "Ok" /\ ret.n > 0

\* C10: the Operation Log is the exact history of the facade calls: as many
\* entries as calls, the i-th entry the Operation of the i-th call with its
\* interest-set and poll-options, nothing merged, changed or removed, and
\* every call reports success.
C10_LogIsCallHistory ==
    /\ Len(operations) = Len(calls)
    /\ \A i \in 1..Len(calls) : operations[i] = calls[i]
    /\ ret.op \in {"Register", "Reregister", "Deregister", "Shutdown"}
        => /\ ret.outcome = "Ok"
           /\ calls # <<>>
           /\ ret.op = calls[Len(calls)].kind

\* C10's case: the same register call made twice in a row, then deregister.
C10_Witness ==
    /\ Len(calls) = 3
    /\ calls[1].kind = "Register" /\ calls[2] = calls[1]
    /\ calls[3] = Deregister
    /\ operations = <<calls[1], calls[1], Deregister>>

\* C11: timeout_ms and clear_timeout on the Handler abort in every state and
\* for every argument, and append nothing to the Operation Log (which still
\* holds exactly the facade calls made); they never succeed.
C11_TimersAbort ==
    /\ ret.op \in {"timeout_ms", "clear_timeout"} => ret.outcome = "Panic"
    /\ operations = calls

\* C11's case: timeout_ms with a non-zero delay was called on a Handler whose
\* log already held an entry.
C11_Witness ==
    /\ ret.op = "timeout_ms" /\ ret.cap > 0
    /\ ret.outcome = "Panic"
    /\ operations # <<>>

\* C12: creating and discarding a Scope view changes neither the Operation
\* Log nor the context; a transition run through a view that makes no
\* scheduling call (wakeup) returns counter + 1 and leaves both alone; so
\* across any number of views the log holds exactly the scheduling calls
\* made and the context what ctx() last stored.
C12_ScopeKeepsLogAndContext ==
    /\ [](operations = calls)
    /\ []((ret.op = "ctx" /\ ret.outcome = "Ok") => <<context>> = ret.data)
    /\ [][/\ ret'.op \in {"scope", "drop"}
              => operations' = operations /\ context' = context
          /\ ret'.op = "wakeup"
              => /\ machine' = machine + 1 /\ ret'.n = machine + 1
                 /\ operations' = operations /\ context' = context]_vars

\* C12's case: a further view was created after an earlier one had been used
\* for a wakeup and for scheduling calls, and the log still holds them.
C12_Witness ==
    /\ ret.op = "scope" /\ ret.outcome = "Ok"
    /\ machine >= 1
    /\ operations # <<>> /\ operations = calls

\* C13: at most one Scope view is alive at any time: scope (and ctx) is
\* refused exactly while a view obtained earlier is still alive, and
\* succeeds when none is.
C13_OneLiveScope ==
    /\ Len(live) <= 1
    /\ ret.op = "scope"
        => \/ ret.outcome = "Ok" /\ live = <<ret.cap>>
           \/ ret.outcome = "Rejected" /\ live # <<>>
    /\ ret.op = "ctx"
        => \/ ret.outcome = "Ok" /\ live = <<>>
           \/ ret.outcome = "Rejected" /\ live # <<>>

\* C13's case: a second scope call was refused while the first view lived.
C13_Witness ==
    /\ ret.op = "scope" /\ ret.outcome = "Rejected"
    /\ Len(live) = 1 /\ live[1] # ret.cap

\* C14: shutdown_input does not discard buffered input, and a read with
\* positive capacity never reports end-of-stream while unread pushed bytes
\* remain; so when such a read does report end-of-stream, the reads before
\* it have delivered exactly the pushed bytes, in order.
C14_NoEofBeforeDrained ==
    /\ (ret.op = "shutdown_input" /\ ret.outcome = "Ok")
        => ret.post.input = ret.pre.input /\ ret.post.input_closed
    /\ (ret.op = "read" /\ ret.cap > 0 /\ ret.pre.input # <<>>)
        => ~(ret.outcome = "Ok" /\ ret.n = 0)
    /\ (ret.op = "read" /\ ret.cap > 0 /\ ret.outcome = "Ok" /\ ret.n = 0)
        => delivered = pushed

\* C14's case: bytes were pushed, the input shut down, and a read reported
\* end-of-stream after all of them had been delivered.
C14_Witness ==
    /\ ret.op = "read" /\ ret.cap > 0 /\ ret.outcome = "Ok" /\ ret.n = 0
    /\ Len(pushed) >= 2
    /\ delivered = pushed

\* C17: on a stream whose lock is not poisoned, the bytes returned by reads
\* so far followed by the input buffer are exactly the bytes pushed so far:
\* none lost, duplicated or reordered, and never more read than pushed.
C17_BytesConserved ==
    \A h \in Handles :
        ~heap[handles[h]].poisoned
            => /\ delivered \o heap[handles[h]].input = pushed
               /\ Len(delivered) <= Len(pushed)

\* C17's case: a push landed behind unread bytes after earlier bytes had
\* been read, with a write in between left in the output buffer.
C17_Witness ==
    /\ ret.op = "push_bytes" /\ ret.outcome = "Ok" /\ ret.val # <<>>
    /\ ret.pre.input # <<>>
    /\ delivered # <<>>
    /\ ret.pre.output # <<>>

\* C15: the input and output buffers are separate: write and flush never
\* change input or input_closed; push_bytes, shutdown_input and read never
\* change output; and no read returns a byte that was only ever written.
C15_NotAPipe ==
    /\ ret.op \in {"write", "flush"}
        => /\ ret.post.input = ret.pre.input
           /\ ret.post.input_closed = ret.pre.input_closed
    /\ ret.op \in {"push_bytes", "shutdown_input", "read"}
        => ret.post.output = ret.pre.output
    /\ ret.op = "read"
        => \A i \in 1..Len(ret.data) : ret.data[i] \notin OutBytes \ InBytes
    /\ \A h \in Handles : \A i \in 1..Len(heap[handles[h]].input) :
          heap[handles[h]].input[i] \notin OutBytes \ InBytes

\* C15's case: a read returned bytes while bytes that were only written sat
\* in the output buffer, which the read left alone.
C15_Witness ==
    /\ ret.op = "read" /\ ret.outcome = "Ok" /\ ret.n > 0
    /\ \E i \in 1..Len(ret.pre.output) : ret.pre.output[i] \notin InBytes
    /\ ret.post.output = ret.pre.output

\* C16: read returns would-block only when the input buffer is empty and
\* input_closed is false, for every capacity, zero included.
C16_WouldBlockOnlyWhenEmpty ==
    (ret.op = "read" /\ ret.outcome = "WouldBlock")
        => (ret.pre.input = <<>> /\ ~ret.pre.input_closed)

\* C19: a push_bytes on a closed input aborts with the lock held, which
\* poisons it; from then on every locking call through every handle aborts,
\* changes nothing and returns no data, so the bytes of the rejected push
\* are never delivered.
C19_RejectedPushIsFatal ==
    /\ (ret.op = "push_bytes" /\ ret.pre.input_closed)
        => ret.outcome = "Panic" /\ ret.post.poisoned
    /\ (ret.op \in LockingOps /\ ret.pre.poisoned)
        => /\ ret.outcome = "Panic"
           /\ ret.post = ret.pre
           /\ ret.data = <<>> /\ ret.n = 0
    /\ ret.pre.poisoned => ret.post.poisoned
    /\ \A h \in Handles : heap[handles[h]].poisoned = ret.post.poisoned

\* C19's case: with a clone alive, a read with room for bytes aborted on a
\* closed stream whose buffer holds just the byte of a rejected push (a
\* one-byte buffer cannot have made a read abort by itself).
C19_Witness ==
    /\ Len(handles) >= 2
    /\ ret.op = "read" /\ ret.cap > 0 /\ ret.outcome = "Panic"
    /\ ret.pre.poisoned /\ ret.pre.input_closed
    /\ Len(ret.pre.input) = 1

\* C20: after shutdown_input every read with a positive capacity on a lock
\* that is not poisoned succeeds, either shrinking the input buffer by the
\* bytes it returns or, the buffer being empty, reporting end-of-stream; so
\* a consumer that keeps reading comes to end-of-stream.
C20_ReadingTerminates ==
    (ret.op = "read" /\ ret.cap > 0 /\ ret.pre.input_closed
        /\ ~ret.pre.poisoned)
        => /\ ret.outcome = "Ok"
           /\ Len(ret.post.input) = Len(ret.pre.input) - ret.n
           /\ ret.n = 0 <=> ret.pre.input = <<>>

\* C18: with two threads driving two handles of one cell, the calls are
\* atomic under the lock: whenever no guard is alive the cell is what the
\* whole calls returned so far give when applied one after another; a read
\* copies, and a snapshot clones, only what whole calls left (never a part
\* of a push or of a write); and every call returns what the whole call
\* returns on the cell of that sequential order.
C18_CallsAreAtomic ==
    /\ guards = {} => \A h \in Handles : heap[handles[h]] = serial
    /\ \A t \in Threads :
          /\ (pc[t].at = "body" /\ pc[t].op = "read" /\ pc[t].i >= 1)
              => pc[t].data = copy(serial.input, pc[t].cap).dst
          /\ (pc[t].at = "body" /\ pc[t].op = "output_bytes" /\ pc[t].i = 1)
              => pc[t].data = serial.output
          /\ (pc[t].at = "body" /\ pc[t].op = "output_str" /\ pc[t].i = 1)
              => pc[t].data = from_utf8_lossy(serial.output)
    /\ ret.op \in LockingOps
        => LET r == Apply(ret.op, ret.pre, ret.cap, ret.val)
           IN  /\ ret.post = r.m
               /\ ret.outcome = r.outcome
               /\ ret.n = r.n
               /\ ret.data = r.data

\* C18's case: a read has returned a whole two-byte push, and now thread 1
\* holds the guard half-way through a two-byte write while thread 2, which
\* called output_str, waits in Mutex::lock.
C18_Witness ==
    /\ ret.op = "read" /\ ret.outcome = "Ok" /\ ret.n = 2
    /\ pc[1].at = "body" /\ pc[1].op = "write"
    /\ Len(pc[1].val) = 2 /\ pc[1].i = 1
    /\ heap[handles[1]].output = <<195>>
    /\ pc[2].at = "lock" /\ pc[2].op = "output_str"

====
